---- MODULE Spec2Model ----
(***************************************************************************)
(* The inventory / sales / dues ledger of core/database.py as a state      *)
(* machine.  The tables are the state; every public ledger function is one *)
(* action that models the whole call, nested calls and commits included;   *)
(* for concurrent writers the same calls are taken statement by statement. *)
(*                                                                         *)
(* Text is a sequence of one-character strings, so that str.strip() is     *)
(* computed and not assumed.  An optional argument (Python None, SQL NULL) *)
(* is the empty tuple and a present value v is <<v>>.  Money is counted in *)
(* minor units (0.01), so REAL arithmetic is exact integer arithmetic.     *)
(***************************************************************************)
EXTENDS Integers, Sequences, FiniteSets, TLC

VARIABLES products, product_columns, sales, dues_received, customers, expenses,
          cart, page_products, calls, last

vars == <<products, product_columns, sales, dues_received, customers, expenses,
         cart, page_products, calls, last>>

\* The state of the pages: the cart of the sales page and the product list the
\* purchase page keeps.
pages == <<cart, page_products>>

(***************************************************************************)
(* Bounds of the model.                                                    *)
(***************************************************************************)
MaxQty == 2
MaxSales == 2
MaxPayments == 2
MaxCart == 2

(***************************************************************************)
(* Optional values and text.                                               *)
(***************************************************************************)
None == <<>>

Some(v) == <<v>>

\* Mutant of OrElse: an omitted argument counts as zero.
OrElse_zero(opt, default) == IF opt = None THEN 0 ELSE opt[1]

OrElse(opt, default) == IF opt = None THEN default ELSE opt[1]

RECURSIVE lstrip(_)
lstrip(s) == IF s # <<>> /\ Head(s) = " " THEN lstrip(Tail(s)) ELSE s

RECURSIVE rstrip(_)
rstrip(s) == IF s # <<>> /\ s[Len(s)] = " " THEN rstrip(SubSeq(s, 1, Len(s) - 1)) ELSE s

strip(s) == rstrip(lstrip(s))

(***************************************************************************)
(* Outcomes of a call: "ok" or the exception that left the function.       *)
(***************************************************************************)
OK == "ok"
IntegrityError == "sqlite3.IntegrityError"
ErrPaidExceedsTotal == "ValueError: Paid amount cannot exceed total amount"
ErrNotFound == "ValueError: Product not found"
ErrNoStoreStock == "ValueError: Not enough stock in store"
ErrNoWarehouseStock == "ValueError: Not enough stock in warehouse"
ErrIdRequired == "ValueError: Product id is required and cannot be empty"
ErrNegative == "ValueError: cost_price and quantity must be non-negative"
ErrCostNegative == "ValueError: cost_price must be non-negative"
ErrNameCompany == "ValueError: Product name and company are required"
ErrLocationNegative == "ValueError: quantities must be non-negative"
ErrSplit == "ValueError: warehouse_quantity + store_quantity must equal total quantity"
ErrTransferQuantity == "ValueError: Transfer quantity must be positive"
ErrLocations == "ValueError: Locations must be 'warehouse' or 'store'"
ErrSameLocation == "ValueError: Source and destination locations must be different"
ErrPaymentAmount == "ValueError: Payment amount must be positive"
ErrCustomerRequired == "ValueError: Customer name is required"

(***************************************************************************)
(* The products table: product id -> row.  The CHECK constraints of        *)
(* _create_products_table are evaluated on every insert and update.        *)
(***************************************************************************)
products_row(name, company, cost_price, quantity, warehouse_quantity, store_quantity) ==
    [name |-> name, company |-> company, cost_price |-> cost_price,
     quantity |-> quantity, warehouse_quantity |-> warehouse_quantity,
     store_quantity |-> store_quantity]

products_check(row) ==
    /\ row.cost_price >= 0
    /\ row.quantity >= 0
    /\ row.warehouse_quantity >= 0
    /\ row.store_quantity >= 0

get_product_by_id(P, product_id) ==
    IF product_id \in DOMAIN P THEN Some(P[product_id]) ELSE None

\* What a product function returns: its outcome and the products table it leaves.
Outcome(result, P) == [result |-> result, products |-> P]

\* Mutant of split_mismatch: only a split larger than the total is refused.
split_mismatch_only_excess(warehouse_quantity, store_quantity, quantity) ==
    warehouse_quantity + store_quantity > quantity

\* Mutant of split_mismatch: the guard left out.
split_mismatch_never(warehouse_quantity, store_quantity, quantity) == FALSE

\* The guard "warehouse_quantity + store_quantity != quantity" of add_product
\* and update_product.
split_mismatch(warehouse_quantity, store_quantity, quantity) ==
    warehouse_quantity + store_quantity # quantity

\* Mutant of product_key: the id is stored as it was given.
product_key_untrimmed(product_id) == product_id

\* The id add_product hands to the INSERT: product_id.strip().
product_key(product_id) == strip(product_id)

add_product_on(P, product_id, name, company, cost_price, quantity, warehouse_quantity, store_quantity) ==
    LET wq == OrElse(warehouse_quantity, quantity)
        sq == OrElse(store_quantity, 0)
        row == products_row(strip(name), strip(company), cost_price, quantity, wq, sq)
    IN  IF strip(product_id) = <<>> THEN Outcome(ErrIdRequired, P)
        ELSE IF cost_price < 0 \/ quantity < 0 THEN Outcome(ErrNegative, P)
        ELSE IF strip(name) = <<>> \/ strip(company) = <<>> THEN Outcome(ErrNameCompany, P)
        ELSE IF wq < 0 \/ sq < 0 THEN Outcome(ErrLocationNegative, P)
        ELSE IF split_mismatch(wq, sq, quantity) THEN Outcome(ErrSplit, P)
        ELSE IF product_key(product_id) \in DOMAIN P \/ ~products_check(row)
             THEN Outcome(IntegrityError, P)
        ELSE Outcome(OK, P @@ (product_key(product_id) :> row))

update_product_on(P, product_id, name, company, cost_price, quantity, warehouse_quantity, store_quantity) ==
    IF cost_price < 0 THEN Outcome(ErrCostNegative, P)
    ELSE IF strip(name) = <<>> \/ strip(company) = <<>> THEN Outcome(ErrNameCompany, P)
    ELSE IF get_product_by_id(P, product_id) = None THEN Outcome(ErrNotFound, P)
    ELSE LET current == P[product_id]
             q == OrElse(quantity, current.quantity)
             wq == OrElse(warehouse_quantity, current.warehouse_quantity)
             sq == OrElse(store_quantity, current.store_quantity)
             row == products_row(strip(name), strip(company), cost_price, q, wq, sq)
         IN  IF q < 0 \/ wq < 0 \/ sq < 0 THEN Outcome(ErrLocationNegative, P)
             ELSE IF split_mismatch(wq, sq, q) THEN Outcome(ErrSplit, P)
             ELSE IF ~products_check(row) THEN Outcome(IntegrityError, P)
             ELSE Outcome(OK, [P EXCEPT ![product_id] = row])

\* Mutant of transfer_quantities: the two branches exchanged.
transfer_quantities_reversed(prod, from_location, quantity) ==
    IF from_location = "warehouse"
    THEN [warehouse_quantity |-> prod.warehouse_quantity + quantity,
          store_quantity |-> prod.store_quantity - quantity]
    ELSE [warehouse_quantity |-> prod.warehouse_quantity - quantity,
          store_quantity |-> prod.store_quantity + quantity]

\* The location quantities transfer_inventory hands to update_product.
transfer_quantities(prod, from_location, quantity) ==
    IF from_location = "warehouse"
    THEN [warehouse_quantity |-> prod.warehouse_quantity - quantity,
          store_quantity |-> prod.store_quantity + quantity]
    ELSE [warehouse_quantity |-> prod.warehouse_quantity + quantity,
          store_quantity |-> prod.store_quantity - quantity]

\* Mutant of transfer_quantity_invalid: a transfer of nothing passes.
transfer_quantity_invalid_negative_only(quantity) == quantity < 0

\* The guard "quantity <= 0" of transfer_inventory.
transfer_quantity_invalid(quantity) == quantity <= 0

transfer_inventory_on(P, product_id, from_location, to_location, quantity) ==
    IF transfer_quantity_invalid(quantity) THEN Outcome(ErrTransferQuantity, P)
    ELSE IF from_location \notin {"warehouse", "store"} \/ to_location \notin {"warehouse", "store"}
         THEN Outcome(ErrLocations, P)
    ELSE IF from_location = to_location THEN Outcome(ErrSameLocation, P)
    ELSE IF get_product_by_id(P, product_id) = None THEN Outcome(ErrNotFound, P)
    ELSE LET prod == P[product_id]
             new == transfer_quantities(prod, from_location, quantity)
         IN  IF from_location = "warehouse" /\ prod.warehouse_quantity < quantity
             THEN Outcome(ErrNoWarehouseStock, P)
             ELSE IF from_location # "warehouse" /\ prod.store_quantity < quantity
             THEN Outcome(ErrNoStoreStock, P)
             ELSE update_product_on(P, product_id, prod.name, prod.company, prod.cost_price,
                                    Some(prod.quantity), Some(new.warehouse_quantity),
                                    Some(new.store_quantity))

(***************************************************************************)
(* The schema of the products table and init_database.  product_columns is *)
(* the set of column names PRAGMA table_info(products) returns; a database *)
(* without a products table has none.  A row of a table that lacks the two *)
(* location columns is a record without these two fields.                  *)
(***************************************************************************)
NoTable == {}

PreMigrationColumns == {"id", "name", "company", "cost_price", "quantity", "created_at"}

CurrentColumns == PreMigrationColumns \cup {"warehouse_quantity", "store_quantity"}

Schema(columns, P) == [columns |-> columns, products |-> P]

\* CREATE TABLE IF NOT EXISTS products (...): a new, empty table with all the
\* columns when there is none, and nothing otherwise.
create_products_table_on(C, P) ==
    IF C = NoTable THEN Schema(CurrentColumns, <<>>) ELSE Schema(C, P)

\* ALTER TABLE products ADD COLUMN column INTEGER NOT NULL DEFAULT 0.
add_column(P, column) == [id \in DOMAIN P |-> P[id] @@ (column :> 0)]

\* WHERE warehouse_quantity = 0 AND store_quantity = 0 AND quantity > 0.
backfill_needed(row) ==
    row.warehouse_quantity = 0 /\ row.store_quantity = 0 /\ row.quantity > 0

\* SET warehouse_quantity = quantity / 2, store_quantity = quantity / 2 + (quantity % 2).
backfill(row) ==
    [row EXCEPT !.warehouse_quantity = row.quantity \div 2,
                !.store_quantity = row.quantity \div 2 + (row.quantity % 2)]

\* _add_warehouse_store_columns: columns is the list read by PRAGMA table_info
\* before the two ALTER TABLE statements, and the backfill is guarded by that
\* list, not by the columns the table has after them.
add_warehouse_store_columns_on(C, P) ==
    LET columns == C
        with_warehouse == IF "warehouse_quantity" \notin columns
                          THEN add_column(P, "warehouse_quantity") ELSE P
        with_store == IF "store_quantity" \notin columns
                      THEN add_column(with_warehouse, "store_quantity")
                      ELSE with_warehouse
        migrated == [id \in DOMAIN with_store |->
                        IF backfill_needed(with_store[id])
                        THEN backfill(with_store[id]) ELSE with_store[id]]
    IN  IF "warehouse_quantity" \in columns \/ "store_quantity" \in columns
        THEN Schema(C \cup {"warehouse_quantity", "store_quantity"}, migrated)
        ELSE Schema(C \cup {"warehouse_quantity", "store_quantity"}, with_store)

\* init_database, as far as the products table goes: the other tables are
\* created with CREATE TABLE IF NOT EXISTS and the indexes with CREATE INDEX IF
\* NOT EXISTS.
init_database_on(C, P) ==
    LET created == create_products_table_on(C, P)
    IN  add_warehouse_store_columns_on(created.columns, created.products)

(***************************************************************************)
(* The sales table: rows in insertion order (the AUTOINCREMENT id of a row *)
(* is its position; no function deletes or updates a row).  The date of a  *)
(* row, CURRENT_TIMESTAMP at its insert, is counted in inserts: a later    *)
(* row has a later date.                                                   *)
(***************************************************************************)
sale_total(selling_price, quantity) == selling_price * quantity

sale_profit(selling_price, cost_price, quantity) == (selling_price - cost_price) * quantity

\* Mutant of sale_due_amount: the operands exchanged.
sale_due_amount_swapped(total, paid_amount) == paid_amount - total

sale_due_amount(total, paid_amount) == total - paid_amount

\* DEFAULT CURRENT_TIMESTAMP of the row inserted into table S.
current_timestamp(S) == Len(S) + 1

\* Mutant of paid_exceeds_total: the comparison inverted.
paid_exceeds_total_inverted(due_amount) == due_amount > 0

\* The guard "due_amount < 0" of add_sale.
paid_exceeds_total(due_amount) == due_amount < 0

sales_row(date, sale_type, customer_name, product_id, product_name, selling_price, cost_price, quantity, paid_amount) ==
    LET total == sale_total(selling_price, quantity)
    IN  [date |-> date, sale_type |-> sale_type, customer_name |-> customer_name,
         product_id |-> product_id, product_name |-> product_name,
         selling_price |-> selling_price, cost_price |-> cost_price,
         quantity |-> quantity, total |-> total,
         profit |-> sale_profit(selling_price, cost_price, quantity),
         paid_amount |-> paid_amount,
         due_amount |-> sale_due_amount(total, paid_amount)]

\* The CHECK constraints of _create_sales_table.
sales_check(row) ==
    /\ row.sale_type \in {"retail", "wholesale"}
    /\ row.selling_price >= 0
    /\ row.cost_price >= 0
    /\ row.quantity >= 0
    /\ row.paid_amount >= 0

\* Mutant of sale_deduction: the units are taken from the warehouse.
sale_deduction_from_warehouse(prod, quantity) ==
    [quantity |-> prod.quantity - quantity,
     warehouse_quantity |-> prod.warehouse_quantity - quantity,
     store_quantity |-> prod.store_quantity]

\* The product row add_sale hands to update_product after the stock check.
sale_deduction(prod, quantity) ==
    [quantity |-> prod.quantity - quantity,
     warehouse_quantity |-> prod.warehouse_quantity,
     store_quantity |-> prod.store_quantity - quantity]

SaleOutcome(result, P, S) == [result |-> result, products |-> P, sales |-> S]

\* Mutant of insufficient_stock: one unit more than the store holds passes.
insufficient_stock_off_by_one(prod, quantity) == prod.store_quantity < quantity - 1

\* The stock check "current_store_qty < quantity" of add_sale, on the product
\* row it has read.
insufficient_stock(prod, quantity) == prod.store_quantity < quantity

\* add_sale: the due check, then INSERT and commit, and only then the product
\* lookup, the stock check and update_product.  A ValueError raised after the
\* commit leaves the function with the inserted row in place.
add_sale_on(P, S, sale_type, product_id, product_name, selling_price, cost_price, quantity, paid_amount, customer_name) ==
    LET row == sales_row(current_timestamp(S), sale_type, customer_name, product_id, product_name,
                         selling_price, cost_price, quantity, paid_amount)
        inserted == Append(S, row)
    IN  IF paid_exceeds_total(row.due_amount) THEN SaleOutcome(ErrPaidExceedsTotal, P, S)
        ELSE IF ~sales_check(row) THEN SaleOutcome(IntegrityError, P, S)
        ELSE IF get_product_by_id(P, product_id) = None
             THEN SaleOutcome(ErrNotFound, P, inserted)
        ELSE LET prod == P[product_id]
                 new == sale_deduction(prod, quantity)
                 upd == update_product_on(P, product_id, prod.name, prod.company,
                                          prod.cost_price, Some(new.quantity),
                                          Some(new.warehouse_quantity),
                                          Some(new.store_quantity))
             IN  IF insufficient_stock(prod, quantity)
                 THEN SaleOutcome(ErrNoStoreStock, P, inserted)
                 ELSE SaleOutcome(upd.result, upd.products, inserted)

(***************************************************************************)
(* The dues_received table and the dues derived from both ledgers.         *)
(***************************************************************************)
\* received_date and notes are read by no function modelled here and are left
\* out of the row.
dues_received_row(customer_name, amount_received) ==
    [customer_name |-> customer_name, amount_received |-> amount_received]

DuesOutcome(result, D) == [result |-> result, dues_received |-> D]

\* Mutant of payment_amount_invalid: a payment of zero is accepted.
payment_amount_invalid_negative_only(amount) == amount < 0

\* The guard "amount <= 0" of add_dues_payment.
payment_amount_invalid(amount) == amount <= 0

add_dues_payment_on(D, customer_name, amount) ==
    IF payment_amount_invalid(amount) THEN DuesOutcome(ErrPaymentAmount, D)
    ELSE IF strip(customer_name) = <<>> THEN DuesOutcome(ErrCustomerRequired, D)
    ELSE DuesOutcome(OK, Append(D, dues_received_row(strip(customer_name), amount)))

\* Mutant of counts_as_due: the sale_type condition left out.
counts_as_due_any_type(row) == row.due_amount > 0

\* WHERE sale_type = 'wholesale' AND due_amount > 0 (the dues filter on sales).
counts_as_due(row) == row.sale_type = "wholesale" /\ row.due_amount > 0

RECURSIVE SumDue(_, _)
SumDue(S, name) ==
    IF S = <<>> THEN 0
    ELSE (IF counts_as_due(Head(S)) /\ Head(S).customer_name = Some(name)
          THEN Head(S).due_amount ELSE 0) + SumDue(Tail(S), name)

RECURSIVE SumReceived(_, _)
SumReceived(D, name) ==
    IF D = <<>> THEN 0
    ELSE (IF Head(D).customer_name = name THEN Head(D).amount_received ELSE 0)
         + SumReceived(Tail(D), name)

Max(a, b) == IF a >= b THEN a ELSE b

\* Mutant of get_customer_dues_by_name: the floor at 0 left out.
get_customer_dues_by_name_unfloored(S, D, customer_name) ==
    SumDue(S, customer_name) - SumReceived(D, customer_name)

\* Mutant of get_customer_dues_by_name: payments added to the dues.
get_customer_dues_by_name_added(S, D, customer_name) ==
    Max(0, SumDue(S, customer_name) + SumReceived(D, customer_name))

get_customer_dues_by_name(S, D, customer_name) ==
    Max(0, SumDue(S, customer_name) - SumReceived(D, customer_name))

\* remaining_due > 0.01, in minor units.
DuesNoiseThreshold == 1

DueCustomers(S) ==
    {S[i].customer_name[1] :
        i \in {j \in 1..Len(S) : counts_as_due(S[j]) /\ S[j].customer_name # None}}

ReceivedCustomers(D) == {D[i].customer_name : i \in 1..Len(D)}

\* MAX(date) of the customer's due rows; absent when the customer has none.
last_sale_date(S, name) ==
    LET dates == {S[i].date :
                    i \in {j \in 1..Len(S) :
                             counts_as_due(S[j]) /\ S[j].customer_name = Some(name)}}
    IN  IF dates = {} THEN None ELSE Some(CHOOSE d \in dates : \A e \in dates : e <= d)

dues_entry(S, D, customer) ==
    LET total_due == IF customer \in DueCustomers(S) THEN SumDue(S, customer) ELSE 0
        total_received == IF customer \in ReceivedCustomers(D)
                          THEN SumReceived(D, customer) ELSE 0
    IN  [customer_name |-> customer, total_due |-> total_due,
         total_received |-> total_received,
         remaining_due |-> total_due - total_received,
         last_sale_date |-> last_sale_date(S, customer)]

dues_entries(S, D) ==
    {e \in {dues_entry(S, D, c) : c \in DueCustomers(S) \cup ReceivedCustomers(D)} :
        e.remaining_due > DuesNoiseThreshold}

\* sorted(result, key=remaining_due, reverse=True) over a set: every list of the
\* entries in descending order of remaining_due is a possible return value (the
\* order of equal keys follows the iteration order of the set).
\* Mutant of in_sort_order: reverse=True left out.
in_sort_order_ascending(first, second) == first.remaining_due <= second.remaining_due

\* key=lambda x: x['remaining_due'], reverse=True: the first entry may stand
\* before the second.
in_sort_order(first, second) == first.remaining_due >= second.remaining_due

get_customer_dues_with_payments(S, D) ==
    LET E == dues_entries(S, D)
        n == Cardinality(E)
    IN  {l \in [1..n -> E] :
            /\ \A e \in E : \E i \in 1..n : l[i] = e
            /\ \A i, j \in 1..n : i < j => in_sort_order(l[i], l[j])}

(***************************************************************************)
(* Calls in progress.  Every statement of a ledger function runs on its    *)
(* own connection and every write is committed by itself, so between two   *)
(* statements of one call the statements of another writer (a second       *)
(* thread or a second instance on the same file) may run.  calls holds,    *)
(* for each writer, the call it is in: the function, the statement it has  *)
(* reached and the local values it carries.  What a call computes between  *)
(* two statements is local and is part of the step of the statement        *)
(* before it.                                                              *)
(***************************************************************************)
Procs == {1, 2}

Call(op, pc, product_id, quantity, sale, prod, args, row) ==
    [op |-> op, pc |-> pc, product_id |-> product_id, quantity |-> quantity,
     sale |-> sale, prod |-> prod, args |-> args, row |-> row]

Idle == Call("idle", "idle", None, 0, 0, None, None, None)

\* The arguments of an update_product call.
update_args(name, company, cost_price, quantity, warehouse_quantity, store_quantity) ==
    [name |-> name, company |-> company, cost_price |-> cost_price,
     quantity |-> quantity, warehouse_quantity |-> warehouse_quantity,
     store_quantity |-> store_quantity]

Checked(result, row) == [result |-> result, row |-> row]

\* update_product up to its UPDATE statement: the argument checks, the read of
\* the current row, the merge of the omitted quantities and the checks on the
\* merged values.
update_product_checked(P, product_id, args) ==
    IF args.cost_price < 0 THEN Checked(ErrCostNegative, None)
    ELSE IF strip(args.name) = <<>> \/ strip(args.company) = <<>>
         THEN Checked(ErrNameCompany, None)
    ELSE IF get_product_by_id(P, product_id) = None THEN Checked(ErrNotFound, None)
    ELSE LET current == P[product_id]
             q == OrElse(args.quantity, current.quantity)
             wq == OrElse(args.warehouse_quantity, current.warehouse_quantity)
             sq == OrElse(args.store_quantity, current.store_quantity)
         IN  IF q < 0 \/ wq < 0 \/ sq < 0 THEN Checked(ErrLocationNegative, None)
             ELSE IF split_mismatch(wq, sq, q) THEN Checked(ErrSplit, None)
             ELSE Checked(OK, Some(products_row(strip(args.name), strip(args.company),
                                                args.cost_price, q, wq, sq)))

\* Mutant of updated_row: the UPDATE leaves the quantity column out.
updated_row_keeps_quantity(stored, row) == [row EXCEPT !.quantity = stored.quantity]

\* UPDATE products SET name, company, cost_price, quantity, warehouse_quantity,
\* store_quantity: the stored row becomes the row of the parameters.
updated_row(stored, row) == row

\* The UPDATE ... WHERE id = ? of update_product and its commit.
update_product_write_on(P, product_id, row) ==
    IF product_id \notin DOMAIN P THEN Outcome(OK, P)
    ELSE IF ~products_check(updated_row(P[product_id], row)) THEN Outcome(IntegrityError, P)
    ELSE Outcome(OK, [P EXCEPT ![product_id] = updated_row(P[product_id], row)])

(***************************************************************************)
(* The sales table of a database written before the due_amount column      *)
(* existed.  Every row of one table has the same columns, so the column is *)
(* missing from the table exactly when it is missing from its rows; ALTER  *)
(* TABLE ... ADD COLUMN ... DEFAULT 0 gives it to every row with value 0.  *)
(***************************************************************************)
\* Mutant of add_due_amount_to_sales_table_on: the column is set to its
\* default on every row, whether the table had it or not.
add_due_amount_to_sales_table_reset(S) == [i \in 1..Len(S) |-> [S[i] EXCEPT !.due_amount = 0]]

add_due_amount_to_sales_table_on(S) ==
    [i \in 1..Len(S) |->
        IF "due_amount" \in DOMAIN S[i] THEN S[i] ELSE S[i] @@ [due_amount |-> 0]]

(***************************************************************************)
(* delete_product: DELETE ... WHERE id = ?, commit, and only then the      *)
(* rowcount test.  No table references products by a foreign key.          *)
(***************************************************************************)
ErrProductIdNotFound == "ValueError: Product with ID not found"

\* Mutant of delete_where_id: the WHERE clause left out.
delete_where_id_all(P, product_id) == <<>>

\* The products table after DELETE FROM products WHERE id = product_id.
delete_where_id(P, product_id) == [id \in DOMAIN P \ {product_id} |-> P[id]]

delete_product_on(P, product_id) ==
    IF product_id \in DOMAIN P
    THEN Outcome(OK, delete_where_id(P, product_id))
    ELSE Outcome(ErrProductIdNotFound, delete_where_id(P, product_id))

(***************************************************************************)
(* The customers and expenses tables: rows in insertion order.  The id of  *)
(* a row is its position; a deleted row leaves None at its position, as    *)
(* AUTOINCREMENT never gives an id a second time.                          *)
(***************************************************************************)
ErrCustomerFields == "ValueError: All customer fields are required."
ErrCustomerIdNotFound == "ValueError: Customer with ID not found"
ErrExpenseAmount == "ValueError: Expense amount must be positive"
ErrExpenseFields == "ValueError: Category and description are required"
ErrExpenseIdNotFound == "ValueError: Expense with ID not found"

customers_row(full_name, whatsapp, phone, address) ==
    [full_name |-> strip(full_name), whatsapp_number |-> strip(whatsapp),
     phone_number |-> strip(phone), address |-> strip(address)]

CustomersOutcome(result, C) == [result |-> result, customers |-> C]

customer_fields_missing(full_name, whatsapp, phone, address) ==
    \/ strip(full_name) = <<>>
    \/ strip(whatsapp) = <<>>
    \/ strip(phone) = <<>>
    \/ strip(address) = <<>>

add_customer_on(C, full_name, whatsapp, phone, address) ==
    IF customer_fields_missing(full_name, whatsapp, phone, address)
    THEN CustomersOutcome(ErrCustomerFields, C)
    ELSE CustomersOutcome(OK, Append(C, Some(customers_row(full_name, whatsapp, phone, address))))

\* The id of a stored row: a position that was not deleted.
stored_id(T, id) == id \in 1..Len(T) /\ T[id] # None

update_customer_on(C, customer_id, full_name, whatsapp, phone, address) ==
    IF customer_fields_missing(full_name, whatsapp, phone, address)
    THEN CustomersOutcome(ErrCustomerFields, C)
    ELSE IF stored_id(C, customer_id)
    THEN CustomersOutcome(OK, [C EXCEPT ![customer_id] =
                                   Some(customers_row(full_name, whatsapp, phone, address))])
    ELSE CustomersOutcome(OK, C)

delete_customer_on(C, customer_id) ==
    IF stored_id(C, customer_id)
    THEN CustomersOutcome(OK, [C EXCEPT ![customer_id] = None])
    ELSE CustomersOutcome(ErrCustomerIdNotFound, C)

expenses_row(date, category, description, amount, notes) ==
    [date |-> date, category |-> strip(category), description |-> strip(description),
     amount |-> amount, notes |-> strip(notes)]

ExpensesOutcome(result, E) == [result |-> result, expenses |-> E]

add_expense_on(E, category, description, amount, notes, expense_date) ==
    IF amount <= 0
    THEN ExpensesOutcome(ErrExpenseAmount, E)
    ELSE IF strip(category) = <<>> \/ strip(description) = <<>>
    THEN ExpensesOutcome(ErrExpenseFields, E)
    ELSE ExpensesOutcome(OK, Append(E, Some(expenses_row(OrElse(expense_date, Len(E) + 1),
                                                         category, description, amount, notes))))

delete_expense_on(E, expense_id) ==
    IF stored_id(E, expense_id)
    THEN ExpensesOutcome(OK, [E EXCEPT ![expense_id] = None])
    ELSE ExpensesOutcome(ErrExpenseIdNotFound, E)

(***************************************************************************)
(* The calls.  Each action is one whole call of a ledger function by the   *)
(* single writer; last records the function and how the call ended.        *)
(***************************************************************************)
Called(op, result) == [op |-> op, result |-> result]

add_product(product_id, name, company, cost_price, quantity, warehouse_quantity, store_quantity) ==
    LET r == add_product_on(products, product_id, name, company, cost_price, quantity,
                            warehouse_quantity, store_quantity)
    IN  /\ last' = Called("add_product", r.result)
        /\ products' = r.products
        /\ UNCHANGED <<product_columns, sales, dues_received, calls, customers, expenses, pages>>

update_product(product_id, name, company, cost_price, quantity, warehouse_quantity, store_quantity) ==
    LET r == update_product_on(products, product_id, name, company, cost_price, quantity,
                               warehouse_quantity, store_quantity)
    IN  /\ last' = Called("update_product", r.result)
        /\ products' = r.products
        /\ UNCHANGED <<product_columns, sales, dues_received, calls, customers, expenses, pages>>

transfer_inventory(product_id, from_location, to_location, quantity) ==
    LET r == transfer_inventory_on(products, product_id, from_location, to_location, quantity)
    IN  /\ last' = Called("transfer_inventory", r.result)
        /\ products' = r.products
        /\ UNCHANGED <<product_columns, sales, dues_received, calls, customers, expenses, pages>>

init_database ==
    LET r == init_database_on(product_columns, products)
    IN  /\ last' = Called("init_database", OK)
        /\ product_columns' = r.columns
        /\ products' = r.products
        /\ sales' = add_due_amount_to_sales_table_on(sales)
        /\ UNCHANGED <<dues_received, calls, customers, expenses, pages>>

add_sale(sale_type, product_id, product_name, selling_price, cost_price, quantity, paid_amount, customer_name) ==
    LET r == add_sale_on(products, sales, sale_type, product_id, product_name,
                         selling_price, cost_price, quantity, paid_amount, customer_name)
    IN  /\ Len(sales) < MaxSales
        /\ last' = Called("add_sale", r.result)
        /\ sales' = r.sales
        /\ products' = r.products
        /\ UNCHANGED <<product_columns, dues_received, calls, customers, expenses, pages>>

add_dues_payment(customer_name, amount) ==
    LET r == add_dues_payment_on(dues_received, customer_name, amount)
    IN  /\ Len(dues_received) < MaxPayments
        /\ last' = Called("add_dues_payment", r.result)
        /\ dues_received' = r.dues_received
        /\ UNCHANGED <<products, product_columns, sales, calls, customers, expenses, pages>>

delete_product(product_id) ==
    LET r == delete_product_on(products, product_id)
    IN  /\ last' = Called("delete_product", r.result)
        /\ products' = r.products
        /\ UNCHANGED <<product_columns, sales, dues_received, calls, customers, expenses, pages>>

add_customer(full_name, whatsapp, phone, address) ==
    LET r == add_customer_on(customers, full_name, whatsapp, phone, address)
    IN  /\ last' = Called("add_customer", r.result)
        /\ customers' = r.customers
        /\ UNCHANGED <<products, product_columns, sales, dues_received, calls, expenses, pages>>

update_customer(customer_id, full_name, whatsapp, phone, address) ==
    LET r == update_customer_on(customers, customer_id, full_name, whatsapp, phone, address)
    IN  /\ last' = Called("update_customer", r.result)
        /\ customers' = r.customers
        /\ UNCHANGED <<products, product_columns, sales, dues_received, calls, expenses, pages>>

delete_customer(customer_id) ==
    LET r == delete_customer_on(customers, customer_id)
    IN  /\ last' = Called("delete_customer", r.result)
        /\ customers' = r.customers
        /\ UNCHANGED <<products, product_columns, sales, dues_received, calls, expenses, pages>>

add_expense(category, description, amount, notes, expense_date) ==
    LET r == add_expense_on(expenses, category, description, amount, notes, expense_date)
    IN  /\ last' = Called("add_expense", r.result)
        /\ expenses' = r.expenses
        /\ UNCHANGED <<products, product_columns, sales, dues_received, calls, customers, pages>>

delete_expense(expense_id) ==
    LET r == delete_expense_on(expenses, expense_id)
    IN  /\ last' = Called("delete_expense", r.result)
        /\ expenses' = r.expenses
        /\ UNCHANGED <<products, product_columns, sales, dues_received, calls, customers, pages>>

(***************************************************************************)
(* The same calls statement by statement, for a writer p.                  *)
(***************************************************************************)
Finish(p, op, result) ==
    /\ calls' = [calls EXCEPT ![p] = Idle]
    /\ last' = Called(op, result)

Continue(p, call) ==
    /\ calls' = [calls EXCEPT ![p] = call]
    /\ UNCHANGED last

\* add_sale up to the commit of its INSERT.
sale_insert(p, sale_type, product_id, product_name, selling_price, cost_price, quantity, paid_amount, customer_name) ==
    LET row == sales_row(current_timestamp(sales), sale_type, customer_name, product_id,
                         product_name, selling_price, cost_price, quantity, paid_amount)
    IN  /\ calls[p] = Idle
        /\ Len(sales) < MaxSales
        /\ IF paid_exceeds_total(row.due_amount)
           THEN Finish(p, "add_sale", ErrPaidExceedsTotal) /\ UNCHANGED sales
           ELSE IF ~sales_check(row)
           THEN Finish(p, "add_sale", IntegrityError) /\ UNCHANGED sales
           ELSE /\ sales' = Append(sales, row)
                /\ Continue(p, Call("add_sale", "get_product_by_id", product_id, quantity,
                                    Len(sales) + 1, None, None, None))
        /\ UNCHANGED <<products, product_columns, dues_received, customers, expenses, pages>>

\* add_sale from get_product_by_id to the call of update_product: the read of
\* the product row, the stock check on the row read and the new quantities.
sale_get_product(p) ==
    LET c == calls[p]
        found == get_product_by_id(products, c.product_id)
        prod == found[1]
        new == sale_deduction(prod, c.quantity)
    IN  /\ c.op = "add_sale"
        /\ c.pc = "get_product_by_id"
        /\ IF found = None THEN Finish(p, "add_sale", ErrNotFound)
           ELSE IF insufficient_stock(prod, c.quantity)
           THEN Finish(p, "add_sale", ErrNoStoreStock)
           ELSE Continue(p, Call("add_sale", "update_product", c.product_id, c.quantity,
                                 c.sale, found,
                                 Some(update_args(prod.name, prod.company, prod.cost_price,
                                                  Some(new.quantity),
                                                  Some(new.warehouse_quantity),
                                                  Some(new.store_quantity))),
                                 None))
        /\ UNCHANGED <<products, product_columns, sales, dues_received, customers, expenses, pages>>

\* transfer_inventory up to the call of update_product: the argument checks,
\* the read of the product row, the check of the source location and the new
\* quantities.
transfer_get_product(p, product_id, from_location, to_location, quantity) ==
    LET found == get_product_by_id(products, product_id)
        prod == found[1]
        new == transfer_quantities(prod, from_location, quantity)
    IN  /\ calls[p] = Idle
        /\ IF transfer_quantity_invalid(quantity)
           THEN Finish(p, "transfer_inventory", ErrTransferQuantity)
           ELSE IF from_location \notin {"warehouse", "store"} \/ to_location \notin {"warehouse", "store"}
           THEN Finish(p, "transfer_inventory", ErrLocations)
           ELSE IF from_location = to_location
           THEN Finish(p, "transfer_inventory", ErrSameLocation)
           ELSE IF found = None THEN Finish(p, "transfer_inventory", ErrNotFound)
           ELSE IF from_location = "warehouse" /\ prod.warehouse_quantity < quantity
           THEN Finish(p, "transfer_inventory", ErrNoWarehouseStock)
           ELSE IF from_location # "warehouse" /\ prod.store_quantity < quantity
           THEN Finish(p, "transfer_inventory", ErrNoStoreStock)
           ELSE Continue(p, Call("transfer_inventory", "update_product", product_id, quantity,
                                 0, found,
                                 Some(update_args(prod.name, prod.company, prod.cost_price,
                                                  Some(prod.quantity),
                                                  Some(new.warehouse_quantity),
                                                  Some(new.store_quantity))),
                                 None))
        /\ UNCHANGED <<products, product_columns, sales, dues_received, customers, expenses, pages>>

\* A call of update_product by the writer itself, up to its UPDATE statement.
update_product_begin(p, product_id, args) ==
    LET r == update_product_checked(products, product_id, args)
    IN  /\ calls[p] = Idle
        /\ IF r.result # OK THEN Finish(p, "update_product", r.result)
           ELSE Continue(p, Call("update_product", "UPDATE", product_id, 0, 0, None,
                                 Some(args), r.row))
        /\ UNCHANGED <<products, product_columns, sales, dues_received, customers, expenses, pages>>

\* The update_product called by add_sale or transfer_inventory, up to its
\* UPDATE statement.
update_product_read(p) ==
    LET c == calls[p]
        r == update_product_checked(products, c.product_id, c.args[1])
    IN  /\ c.pc = "update_product"
        /\ IF r.result # OK THEN Finish(p, c.op, r.result)
           ELSE Continue(p, [c EXCEPT !.pc = "UPDATE", !.row = r.row])
        /\ UNCHANGED <<products, product_columns, sales, dues_received, customers, expenses, pages>>

\* The UPDATE of update_product and its commit, which end the call.
update_product_write(p) ==
    LET c == calls[p]
        r == update_product_write_on(products, c.product_id, c.row[1])
    IN  /\ c.pc = "UPDATE"
        /\ products' = r.products
        /\ Finish(p, c.op, r.result)
        /\ UNCHANGED <<product_columns, sales, dues_received, customers, expenses, pages>>

(***************************************************************************)
(* The arguments the calls are tried with.                                 *)
(***************************************************************************)
P1 == <<"p">>
P2 == <<"q">>
ProductIds == {P1, P2}
ProductName == <<"n">>
Company == <<"c">>
CostPrice == 2
Quantities == 0..MaxQty
Locations == {"warehouse", "store"}
Ali == <<"A">>
PaddedAli == <<" ", "A">>
Blank == <<" ">>
SaleProducts == {P1}
SaleQuantities == {1, MaxQty}
SaleParties ==
    {<<"retail", None>>, <<"retail", Some(Ali)>>,
     <<"wholesale", Some(Ali)>>, <<"wholesale", Some(PaddedAli)>>}
SellingPrice == 2
SaleCostPrice == 1
PaidAmounts(total) == {0, total, total + 1}
PaymentCustomers == {Ali, PaddedAli}
PaymentAmounts == 0..2

Init ==
    /\ products = <<>>
    /\ product_columns = CurrentColumns
    /\ sales = <<>>
    /\ dues_received = <<>>
    /\ calls = [p \in Procs |-> Idle]
    /\ customers = <<>>
    /\ expenses = <<>>
    /\ cart = <<>>
    /\ page_products = <<>>
    /\ last = Called("init_database", OK)

(***************************************************************************)
(* Spec: the inventory ledger and the sales it is coupled to.  Products    *)
(* are added, edited and transferred; P1 is sold (retail, no customer).    *)
(***************************************************************************)
AddProduct ==
    \E product_id \in ProductIds,
       warehouse_quantity \in {None, Some(1)},
       store_quantity \in {None, Some(MaxQty - 1), Some(MaxQty)} :
        add_product(product_id, ProductName, Company, CostPrice, MaxQty,
                    warehouse_quantity, store_quantity)

UpdateProduct ==
    \E product_id \in ProductIds,
       quantity \in {None, Some(1)},
       warehouse_quantity \in {None, Some(1)},
       store_quantity \in {None, Some(1)} :
        update_product(product_id, ProductName, Company, CostPrice, quantity,
                       warehouse_quantity, store_quantity)

TransferInventory ==
    \E product_id \in ProductIds, from_location \in Locations, to_location \in Locations,
       quantity \in Quantities :
        transfer_inventory(product_id, from_location, to_location, quantity)

AddSale ==
    \E product_id \in SaleProducts, quantity \in SaleQuantities :
        \E paid_amount \in PaidAmounts(sale_total(SellingPrice, quantity)) :
            add_sale("retail", product_id, ProductName, SellingPrice, SaleCostPrice,
                     quantity, paid_amount, None)

Next ==
    \/ AddProduct
    \/ UpdateProduct
    \/ TransferInventory
    \/ AddSale

Spec == Init /\ [][Next]_vars

(***************************************************************************)
(* SpecDues: the dues ledger.  One product is stocked in the store; sales  *)
(* of either type, with and without a customer, and payments are          *)
(* recorded.                                                               *)
(***************************************************************************)
StockStore ==
    add_product(P1, ProductName, Company, CostPrice, MaxQty, Some(0), Some(MaxQty))

AddSaleTo ==
    \E party \in SaleParties, paid_amount \in PaidAmounts(sale_total(SellingPrice, 1)) :
        add_sale(party[1], P1, ProductName, SellingPrice, SaleCostPrice, 1,
                 paid_amount, party[2])

AddDuesPayment ==
    \E customer_name \in PaymentCustomers, amount \in PaymentAmounts :
        add_dues_payment(customer_name, amount)

\* Payments with no customer name or a negative amount.
RefusedPayments == ({<<>>, Blank} \X {1}) \cup ({Ali} \X {-1})

RefuseDuesPayment ==
    \E call \in RefusedPayments : add_dues_payment(call[1], call[2])

NextDues ==
    \/ StockStore
    \/ AddSaleTo
    \/ AddDuesPayment
    \/ RefuseDuesPayment

SpecDues == Init /\ [][NextDues]_vars

(***************************************************************************)
(* SpecMigration: the process starts on a database file it finds: none, one *)
(* written before the warehouse/store split (no location columns), or one  *)
(* with the current schema.  init_database runs at every start; transfers  *)
(* are made once the schema is the current one.                            *)
(***************************************************************************)
MigrationQuantities == 0..(MaxQty + 1)

pre_migration_row(name, company, cost_price, quantity) ==
    [name |-> name, company |-> company, cost_price |-> cost_price, quantity |-> quantity]

PreMigrationRows ==
    {pre_migration_row(ProductName, Company, CostPrice, q) : q \in MigrationQuantities}

CurrentRows ==
    {products_row(ProductName, Company, CostPrice, w + s, w, s) :
        w \in Quantities, s \in Quantities}

TablesOf(rows) == UNION {[ids -> rows] : ids \in SUBSET ProductIds}

InitMigration ==
    /\ \/ product_columns = NoTable /\ products = <<>>
       \/ product_columns = PreMigrationColumns /\ products \in TablesOf(PreMigrationRows)
       \/ product_columns = CurrentColumns /\ products \in TablesOf(CurrentRows)
    /\ sales = <<>>
    /\ dues_received = <<>>
    /\ calls = [p \in Procs |-> Idle]
    /\ customers = <<>>
    /\ expenses = <<>>
    /\ cart = <<>>
    /\ page_products = <<>>
    /\ last = Called("startup", OK)

InitDatabase == init_database

TransferMigrated ==
    /\ product_columns = CurrentColumns
    /\ TransferInventory

NextMigration ==
    \/ InitDatabase
    \/ TransferMigrated

SpecMigration == InitMigration /\ [][NextMigration]_vars

(***************************************************************************)
(* SpecConcurrent: two writers on one product.  Each sells, transfers and  *)
(* edits P1 statement by statement, in any interleaving.                   *)
(***************************************************************************)
InitConcurrent ==
    /\ product_columns = CurrentColumns
    /\ \E w \in {0, 1} :
         products = (P1 :> products_row(ProductName, Company, CostPrice, MaxQty, w, MaxQty - w))
    /\ sales = <<>>
    /\ dues_received = <<>>
    /\ calls = [p \in Procs |-> Idle]
    /\ customers = <<>>
    /\ expenses = <<>>
    /\ cart = <<>>
    /\ page_products = <<>>
    /\ last = Called("init_database", OK)

SaleInsert ==
    \E p \in Procs, quantity \in SaleQuantities :
        sale_insert(p, "retail", P1, ProductName, SellingPrice, SaleCostPrice, quantity, 0, None)

SaleGetProduct == \E p \in Procs : sale_get_product(p)

TransferGetProduct ==
    \E p \in Procs, from_location \in Locations, to_location \in Locations :
        transfer_get_product(p, P1, from_location, to_location, 1)

UpdateProductBegin ==
    \E p \in Procs, quantity \in {None, Some(MaxQty - 1)}, warehouse_quantity \in {None, Some(1)} :
        update_product_begin(p, P1, update_args(ProductName, Company, CostPrice, quantity,
                                                warehouse_quantity, None))

UpdateProductRead == \E p \in Procs : update_product_read(p)

UpdateProductWrite == \E p \in Procs : update_product_write(p)

NextConcurrent ==
    \/ SaleInsert
    \/ SaleGetProduct
    \/ TransferGetProduct
    \/ UpdateProductBegin
    \/ UpdateProductRead
    \/ UpdateProductWrite

SpecConcurrent == InitConcurrent /\ [][NextConcurrent]_vars

(***************************************************************************)
(* SpecProducts: the product functions called with valid and invalid       *)
(* arguments.  A call is the tuple of its arguments.                       *)
(***************************************************************************)
PaddedP1 == <<" ", "p", " ">>

\* add_product: ids with and without surrounding blanks, whole and split
\* quantities, and one invalid argument at a time.
AddProductCalls ==
    {<<product_id, ProductName, Company, CostPrice, quantity, split[1], split[2]>> :
        product_id \in {P1, P2, PaddedP1}, quantity \in {1, MaxQty},
        split \in {<<None, None>>, <<Some(1), None>>, <<None, Some(1)>>,
                   <<Some(1), Some(MaxQty - 1)>>, <<Some(0), Some(MaxQty)>>,
                   <<Some(-1), Some(MaxQty + 1)>>, <<Some(MaxQty + 1), Some(-1)>>}}
    \cup {<<product_id, ProductName, Company, CostPrice, MaxQty, None, None>> :
            product_id \in {<<>>, Blank}}
    \cup {<<P1, name, Company, CostPrice, MaxQty, None, None>> : name \in {<<>>, Blank}}
    \cup {<<P1, ProductName, company, CostPrice, MaxQty, None, None>> : company \in {<<>>, Blank}}
    \cup {<<P1, ProductName, Company, -1, MaxQty, None, None>>,
          <<P1, ProductName, Company, CostPrice, -1, None, None>>,
          <<P1, ProductName, Company, CostPrice, 0, None, None>>}

\* update_product: every quantity omitted, given or negative; a new price
\* alone; an invalid price or name.
UpdateProductCalls ==
    {<<product_id, ProductName, Company, CostPrice, quantity, warehouse_quantity, store_quantity>> :
        product_id \in ProductIds, quantity \in {None, Some(1), Some(-1)},
        warehouse_quantity \in {None, Some(1), Some(-1)},
        store_quantity \in {None, Some(0), Some(1)}}
    \cup {<<product_id, ProductName, Company, CostPrice + 1, None, None, None>> :
            product_id \in ProductIds}
    \cup {<<P1, ProductName, Company, -1, None, None, None>>,
          <<P1, Blank, Company, CostPrice, None, None, None>>}

\* transfer_inventory: known and unknown locations, positive and non-positive
\* quantities.
TransferCalls ==
    {<<product_id, from_location, to_location, quantity>> :
        product_id \in ProductIds, from_location \in Locations \cup {"shelf"},
        to_location \in Locations \cup {"shelf"}, quantity \in {-1, 0, 1, MaxQty}}

AddProductAny ==
    \E a \in AddProductCalls : add_product(a[1], a[2], a[3], a[4], a[5], a[6], a[7])

UpdateProductAny ==
    \E a \in UpdateProductCalls : update_product(a[1], a[2], a[3], a[4], a[5], a[6], a[7])

TransferInventoryAny ==
    \E a \in TransferCalls : transfer_inventory(a[1], a[2], a[3], a[4])

NextProducts ==
    \/ AddProductAny
    \/ UpdateProductAny
    \/ TransferInventoryAny

SpecProducts == Init /\ [][NextProducts]_vars

(***************************************************************************)
(* SpecLedger: every kind of ledger operation on one database.  The        *)
(* process starts on the file it finds: none, or one written before the    *)
(* due_amount column and the warehouse/store split, with a product and a   *)
(* sale of it.  init_database runs at every start, before any other call.  *)
(***************************************************************************)
Bob == <<"B">>
NewName == <<"m">>
Phone == <<"1">>
Address == <<"a">>
Category == <<"r">>
Description == <<"d">>
LedgerParties == {<<"retail", None>>, <<"wholesale", Some(Ali)>>}

\* A sales row as it was stored before the due_amount column existed.
pre_due_amount_row(row) == [f \in DOMAIN row \ {"due_amount"} |-> row[f]]

FoundSale ==
    pre_due_amount_row(sales_row(1, "wholesale", Some(Ali), P1, ProductName, SellingPrice,
                                 SaleCostPrice, 1, 0))

InitLedger ==
    /\ \/ product_columns = NoTable /\ products = <<>> /\ sales = <<>>
       \/ /\ product_columns = PreMigrationColumns
          /\ products = (P1 :> pre_migration_row(ProductName, Company, CostPrice, MaxQty))
          /\ sales = <<FoundSale>>
    /\ dues_received = <<>>
    /\ calls = [p \in Procs |-> Idle]
    /\ customers = <<>>
    /\ expenses = <<>>
    /\ cart = <<>>
    /\ page_products = <<>>
    /\ last = Called("startup", OK)

\* main() calls init_database before the first ledger call is possible.
Started == last.op # "startup"

StartDatabase == init_database

StockLedger ==
    /\ Started
    /\ \E product_id \in ProductIds :
         add_product(product_id, ProductName, Company, CostPrice, MaxQty, Some(0), Some(MaxQty))

EditLedger ==
    /\ Started
    /\ update_product(P1, NewName, Company, CostPrice + 1, None, None, None)

DeleteProduct ==
    /\ Started
    /\ \E product_id \in ProductIds : delete_product(product_id)

TransferLedger ==
    /\ Started
    /\ transfer_inventory(P1, "store", "warehouse", 1)

SellLedger ==
    /\ Started
    /\ \E party \in LedgerParties :
         add_sale(party[1], P1, ProductName, SellingPrice, SaleCostPrice, 1, 0, party[2])

PayLedger ==
    /\ Started
    /\ add_dues_payment(Ali, 1)

\* One customer is added, renamed and deleted.
AddCustomer ==
    /\ Started
    /\ customers = <<>>
    /\ add_customer(Ali, Phone, Phone, Address)

UpdateCustomer ==
    /\ Started
    /\ update_customer(1, Bob, Phone, Phone, Address)

DeleteCustomer ==
    /\ Started
    /\ delete_customer(1)

\* One expense is added and deleted.
AddExpense ==
    /\ Started
    /\ expenses = <<>>
    /\ add_expense(Category, Description, 1, <<>>, None)

DeleteExpense ==
    /\ Started
    /\ delete_expense(1)

NextLedger ==
    \/ StartDatabase
    \/ StockLedger
    \/ EditLedger
    \/ DeleteProduct
    \/ TransferLedger
    \/ SellLedger
    \/ PayLedger
    \/ AddCustomer
    \/ UpdateCustomer
    \/ DeleteCustomer
    \/ AddExpense
    \/ DeleteExpense

SpecLedger == InitLedger /\ [][NextLedger]_vars

(***************************************************************************)
(* SpecDuesView: the dues page reads the ledger.  The tables hold any      *)
(* sales and payments recorded so far; get_customer_dues_with_payments is  *)
(* called and last holds the list it returned.                             *)
(***************************************************************************)
\* The add_sale calls whose rows are stored: <<sale_type, customer_name,
\* quantity, paid_amount>>.
ViewSaleCalls ==
    {<<"retail", None, 1, 0>>, <<"wholesale", None, 1, 0>>,
     <<"wholesale", Some(Bob), 1, 0>>, <<"wholesale", Some(Bob), MaxQty, 0>>}
    \cup {<<"wholesale", Some(Ali), quantity, paid_amount>> :
             quantity \in {1, MaxQty}, paid_amount \in {0, SellingPrice}}

\* The add_dues_payment calls whose rows are stored.
ViewPaymentCalls == {Ali, Bob} \X {1, SellingPrice}

\* The sales table after the calls c[1], ..., c[n], each of which succeeded.
sales_after(c) ==
    [i \in DOMAIN c |->
        sales_row(i, c[i][1], c[i][2], P1, ProductName, SellingPrice, SaleCostPrice,
                  c[i][3], c[i][4])]

dues_received_after(c) == [i \in DOMAIN c |-> dues_received_row(c[i][1], c[i][2])]

InitDuesView ==
    /\ products = <<>>
    /\ product_columns = CurrentColumns
    /\ \E n \in 0..MaxSales : \E c \in [1..n -> ViewSaleCalls] : sales = sales_after(c)
    /\ \E n \in 0..MaxPayments : \E c \in [1..n -> ViewPaymentCalls] :
          dues_received = dues_received_after(c)
    /\ calls = [p \in Procs |-> Idle]
    /\ customers = <<>>
    /\ expenses = <<>>
    /\ cart = <<>>
    /\ page_products = <<>>
    /\ last = Called("init_database", OK)

GetCustomerDuesWithPayments ==
    /\ \E l \in get_customer_dues_with_payments(sales, dues_received) :
          last' = Called("get_customer_dues_with_payments", l)
    /\ UNCHANGED <<products, product_columns, sales, dues_received, calls, customers,
                   expenses, pages>>

NextDuesView == GetCustomerDuesWithPayments

SpecDuesView == InitDuesView /\ [][NextDuesView]_vars

(***************************************************************************)
(* The purchase page (ui/pages/purchase.py).  page_products is the list    *)
(* self.products, product id -> row as get_all_products returned it when   *)
(* the page was last loaded; the page is loaded when it is built, when     *)
(* Refresh is clicked and after a purchase was saved, and at no other      *)
(* time: switching to the page does not load it.                           *)
(***************************************************************************)
ErrPurchaseCost == "ValueError: Cost price must be greater than zero"
ErrPurchaseQuantity == "ValueError: Quantity must be a positive number"
ErrSelectProduct == "ValueError: Please select a product"

\* get_all_products: every row of the table, as it is stored now.
get_all_products(P) == P

PurchaseOutcome(result, P, loaded) ==
    [result |-> result, products |-> P, page_products |-> loaded]

\* _save_purchase with product_id selected in the combo box, which lists the
\* loaded products.
save_purchase_on(P, loaded, product_id, cost_price, quantity) ==
    IF product_id \notin DOMAIN loaded THEN PurchaseOutcome(ErrSelectProduct, P, loaded)
    ELSE IF cost_price <= 0 THEN PurchaseOutcome(ErrPurchaseCost, P, loaded)
    ELSE IF quantity <= 0 THEN PurchaseOutcome(ErrPurchaseQuantity, P, loaded)
    ELSE LET current_prod == loaded[product_id]
             new_total_quantity == current_prod.quantity + quantity
             new_warehouse_quantity == current_prod.warehouse_quantity + quantity
             current_store_quantity == current_prod.store_quantity
             upd == update_product_on(P, product_id, current_prod.name, current_prod.company,
                                      cost_price, Some(new_total_quantity),
                                      Some(new_warehouse_quantity),
                                      Some(current_store_quantity))
         IN  IF upd.result = OK
             THEN PurchaseOutcome(OK, upd.products, get_all_products(upd.products))
             ELSE PurchaseOutcome(upd.result, upd.products, loaded)

(***************************************************************************)
(* The sales page (ui/pages/sales.py).  cart holds the hidden data of the  *)
(* rows of cart_table.  The product combo box of the page changes nothing  *)
(* but which ids can be chosen, and Refresh reloads it at any time, so an  *)
(* id is chosen freely.                                                    *)
(***************************************************************************)
ErrCartInput == "ValueError: Quantity and price must be positive"
ErrCartStock == "ValueError: Only that many units available in store"
ErrCartEmpty == "ValueError: Cart is empty"
ErrPaidExceedsCart == "ValueError: Paid amount cannot exceed total"
ErrSelectCustomer == "ValueError: Select a customer"

cart_line(product_id, cost_price, selling_price, quantity, product_name) ==
    [product_id |-> product_id, cost_price |-> cost_price, selling_price |-> selling_price,
     quantity |-> quantity, product_name |-> product_name]

CartOutcome(result, lines) == [result |-> result, cart |-> lines]

add_to_cart_on(P, lines, product_id, quantity, selling_price) ==
    IF quantity <= 0 \/ selling_price <= 0 THEN CartOutcome(ErrCartInput, lines)
    ELSE IF get_product_by_id(P, product_id) = None THEN CartOutcome(ErrNotFound, lines)
    ELSE LET prod == P[product_id]
         IN  IF prod.store_quantity < quantity THEN CartOutcome(ErrCartStock, lines)
             ELSE CartOutcome(OK, Append(lines, cart_line(product_id, prod.cost_price,
                                                          selling_price, quantity, prod.name)))

\* The total label: the sum of the totals of the cart rows.
RECURSIVE cart_total(_)
cart_total(lines) ==
    IF lines = <<>> THEN 0
    ELSE sale_total(Head(lines).selling_price, Head(lines).quantity) + cart_total(Tail(lines))

\* Mutant of paid_for_row: the payment is counted on every row.
paid_for_row_every(row, paid) == paid

\* paid_amount=paid if row == 0 else 0 (rows are counted from 1 here).
paid_for_row(row, paid) == IF row = 1 THEN paid ELSE 0

SavedOutcome(result, P, S, lines) ==
    [result |-> result, products |-> P, sales |-> S, cart |-> lines]

\* The loop of _save_sale from cart row `row` on: one add_sale call per row,
\* each committed by itself; the first exception ends the loop and leaves the
\* cart as it is, the end of the loop clears the cart.
RECURSIVE save_rows(_, _, _, _, _, _, _)
save_rows(P, S, lines, row, paid, sale_type, customer_name) ==
    IF row > Len(lines) THEN SavedOutcome(OK, P, S, <<>>)
    ELSE LET data == lines[row]
             r == add_sale_on(P, S, sale_type, data.product_id, data.product_name,
                              data.selling_price, data.cost_price, data.quantity,
                              paid_for_row(row, paid), customer_name)
         IN  IF r.result = OK
             THEN save_rows(r.products, r.sales, lines, row + 1, paid, sale_type, customer_name)
             ELSE SavedOutcome(r.result, r.products, r.sales, lines)

save_sale_on(P, S, lines, paid, sale_type, customer_name) ==
    IF lines = <<>> THEN SavedOutcome(ErrCartEmpty, P, S, lines)
    ELSE IF paid > cart_total(lines) THEN SavedOutcome(ErrPaidExceedsCart, P, S, lines)
    ELSE IF sale_type = "wholesale" /\ customer_name = None
    THEN SavedOutcome(ErrSelectCustomer, P, S, lines)
    ELSE save_rows(P, S, lines, 1, paid,
                   sale_type, IF sale_type = "wholesale" THEN customer_name ELSE None)

(***************************************************************************)
(* The page actions: one click each.                                       *)
(***************************************************************************)
refresh_page ==
    /\ page_products' = get_all_products(products)
    /\ last' = Called("_refresh_page", OK)
    /\ UNCHANGED <<products, product_columns, sales, dues_received, calls, customers,
                   expenses, cart>>

save_purchase(product_id, cost_price, quantity) ==
    LET r == save_purchase_on(products, page_products, product_id, cost_price, quantity)
    IN  /\ last' = Called("_save_purchase", r.result)
        /\ products' = r.products
        /\ page_products' = r.page_products
        /\ UNCHANGED <<product_columns, sales, dues_received, calls, customers, expenses, cart>>

add_to_cart(product_id, quantity, selling_price) ==
    LET r == add_to_cart_on(products, cart, product_id, quantity, selling_price)
    IN  /\ Len(cart) < MaxCart
        /\ last' = Called("_add_to_cart", r.result)
        /\ cart' = r.cart
        /\ UNCHANGED <<products, product_columns, sales, dues_received, calls, customers,
                       expenses, page_products>>

save_sale(paid, sale_type, customer_name) ==
    LET r == save_sale_on(products, sales, cart, paid, sale_type, customer_name)
    IN  /\ Len(sales) + Len(cart) <= MaxSales
        /\ last' = Called("_save_sale", r.result)
        /\ products' = r.products
        /\ sales' = r.sales
        /\ cart' = r.cart
        /\ UNCHANGED <<product_columns, dues_received, calls, customers, expenses,
                       page_products>>

(***************************************************************************)
(* SpecPages: one user at the pages.  P1 is created once, with one unit in *)
(* the store and the rest in the warehouse; it is moved between the        *)
(* locations, purchased on the purchase page, put in the cart and sold on  *)
(* the sales page.                                                         *)
(***************************************************************************)
PurchaseCost == CostPrice + 1

CreateProduct ==
    /\ P1 \notin DOMAIN products
    /\ add_product(P1, ProductName, Company, CostPrice, MaxQty, Some(MaxQty - 1), Some(1))

MoveStock ==
    \E from_location \in Locations :
        \E to_location \in Locations \ {from_location} :
            transfer_inventory(P1, from_location, to_location, 1)

RefreshPage == refresh_page

\* A purchase is saved while the page shows no more than MaxQty units.
SavePurchase ==
    /\ P1 \in DOMAIN page_products => page_products[P1].quantity <= MaxQty
    /\ save_purchase(P1, PurchaseCost, 1)

AddToCart == add_to_cart(P1, 1, SellingPrice)

SaveSale ==
    \E paid \in {0, cart_total(cart)} : save_sale(paid, "retail", None)

NextPages ==
    \/ CreateProduct
    \/ MoveStock
    \/ RefreshPage
    \/ SavePurchase
    \/ AddToCart
    \/ SaveSale

SpecPages == Init /\ [][NextPages]_vars

(***************************************************************************)
(* Properties of the inventory ledger (checked under Spec).                *)
(***************************************************************************)
\* A retail sale of the inventory ledger, by its arguments.
Sold(product_id, quantity, paid_amount) ==
    add_sale("retail", product_id, ProductName, SellingPrice, SaleCostPrice,
             quantity, paid_amount, None)

\* All rows of the first table, unchanged, are the first rows of the second.
KeepsRows(before, after) ==
    /\ Len(after) >= Len(before)
    /\ SubSeq(after, 1, Len(before)) = before

\* C1: in every state reached by add_product, update_product,
\* transfer_inventory and add_sale calls of the single writer, every product
\* row has warehouse_quantity + store_quantity = quantity and none of the
\* three is negative.
C1_QuantityInvariant ==
    \A id \in DOMAIN products :
        /\ products[id].warehouse_quantity + products[id].store_quantity
             = products[id].quantity
        /\ products[id].warehouse_quantity >= 0
        /\ products[id].store_quantity >= 0
        /\ products[id].quantity >= 0

\* C1 witness: a product that was split over both locations and then sold from.
C1_Witness ==
    /\ last = Called("add_sale", OK)
    /\ \E id \in DOMAIN products :
        /\ products[id].warehouse_quantity > 0
        /\ products[id].quantity < MaxQty

\* C2: add_sale of more than the product's store_quantity is rejected with the
\* insufficient-stock error and changes neither the sales table nor any
\* product row.
C2_InsufficientStockIsNoOp ==
    [][\A product_id \in SaleProducts, quantity \in SaleQuantities :
         \A paid_amount \in {0, sale_total(SellingPrice, quantity)} :
            ( /\ product_id \in DOMAIN products
              /\ quantity > products[product_id].store_quantity
              /\ Sold(product_id, quantity, paid_amount) )
            => ( /\ last'.result = ErrNoStoreStock
                 /\ sales' = sales
                 /\ products' = products )]_vars

\* C3: add_sale for a product id with no product row fails with the not-found
\* error and leaves the sales table with exactly the rows it had.
C3_UnknownProductIsNotRecorded ==
    [][\A product_id \in SaleProducts, quantity \in SaleQuantities :
         \A paid_amount \in {0, sale_total(SellingPrice, quantity)} :
            ( /\ product_id \notin DOMAIN products
              /\ Sold(product_id, quantity, paid_amount) )
            => ( /\ last'.result = ErrNotFound
                 /\ sales' = sales )]_vars

\* C4: add_sale with paid_amount > selling_price * quantity is rejected, and
\* neither a sale row nor a change to a product row is persisted.
C4_OverpaymentRejected ==
    [][last'.op = "add_sale" =>
       \A product_id \in SaleProducts, quantity \in SaleQuantities :
         \A paid_amount \in PaidAmounts(sale_total(SellingPrice, quantity)) :
            ( /\ paid_amount > SellingPrice * quantity
              /\ Sold(product_id, quantity, paid_amount) )
            => ( /\ last'.result = ErrPaidExceedsTotal
                 /\ sales' = sales
                 /\ products' = products )]_vars

\* C4 witness: an overpaid sale was just refused while a product was in stock
\* and a sale was already on record.
C4_Witness ==
    /\ last = Called("add_sale", ErrPaidExceedsTotal)
    /\ \E id \in DOMAIN products : products[id].store_quantity > 0
    /\ Len(sales) > 0

\* C5: every row of the sales table has total = selling_price * quantity,
\* profit = (selling_price - cost_price) * quantity,
\* due_amount = total - paid_amount and due_amount >= 0.
C5_SaleRowArithmetic ==
    \A i \in 1..Len(sales) :
        /\ sales[i].total = sales[i].selling_price * sales[i].quantity
        /\ sales[i].profit
             = (sales[i].selling_price - sales[i].cost_price) * sales[i].quantity
        /\ sales[i].due_amount = sales[i].total - sales[i].paid_amount
        /\ sales[i].due_amount >= 0

\* C5 witness: a fully paid sale and an unpaid sale of more than one unit are
\* both on record.
C5_Witness ==
    /\ \E i \in 1..Len(sales) : sales[i].paid_amount > 0 /\ sales[i].due_amount = 0
    /\ \E i \in 1..Len(sales) : sales[i].quantity > 1 /\ sales[i].due_amount > 0
    /\ last = Called("add_sale", OK)

\* C6: a successful add_sale of n units of product P takes exactly n from P's
\* store_quantity and from P's quantity, leaves P's warehouse_quantity, name,
\* company and cost_price and every other product row as they were, and adds
\* exactly one sale row.
C6_SaleDeductsFromStore ==
    [][last' = Called("add_sale", OK) =>
       \A product_id \in SaleProducts, quantity \in SaleQuantities :
         \A paid_amount \in PaidAmounts(sale_total(SellingPrice, quantity)) :
            ( /\ Sold(product_id, quantity, paid_amount)
              /\ last'.result = OK )
            => ( /\ product_id \in DOMAIN products
                 /\ DOMAIN products' = DOMAIN products
                 /\ products'[product_id].store_quantity
                      = products[product_id].store_quantity - quantity
                 /\ products'[product_id].quantity
                      = products[product_id].quantity - quantity
                 /\ products'[product_id].warehouse_quantity
                      = products[product_id].warehouse_quantity
                 /\ products'[product_id].name = products[product_id].name
                 /\ products'[product_id].company = products[product_id].company
                 /\ products'[product_id].cost_price = products[product_id].cost_price
                 /\ \A other \in DOMAIN products \ {product_id} :
                        products'[other] = products[other]
                 /\ KeepsRows(sales, sales')
                 /\ Len(sales') = Len(sales) + 1
                 /\ sales'[Len(sales')].product_id = product_id
                 /\ sales'[Len(sales')].quantity = quantity )]_vars

\* C6 witness: a sale has just succeeded on one of two products, which still
\* has stock in the warehouse.
C6_Witness ==
    /\ last = Called("add_sale", OK)
    /\ DOMAIN products = ProductIds
    /\ \E i \in 1..Len(sales) :
        /\ products[sales[i].product_id].warehouse_quantity > 0
        /\ products[sales[i].product_id].quantity < MaxQty

\* C7: a successful transfer_inventory of n units of product P leaves P's
\* quantity as it was, takes exactly n from the source location and adds
\* exactly n to the destination; no other product row and no sale row changes.
C7_TransferConserves ==
    [][last' = Called("transfer_inventory", OK) =>
       \A product_id \in ProductIds, from_location \in Locations,
          to_location \in Locations, quantity \in Quantities :
            ( /\ transfer_inventory(product_id, from_location, to_location, quantity)
              /\ last'.result = OK )
            => ( /\ product_id \in DOMAIN products
                 /\ DOMAIN products' = DOMAIN products
                 /\ products'[product_id].quantity = products[product_id].quantity
                 /\ from_location = "warehouse" =>
                      /\ products'[product_id].warehouse_quantity
                           = products[product_id].warehouse_quantity - quantity
                      /\ products'[product_id].store_quantity
                           = products[product_id].store_quantity + quantity
                 /\ from_location = "store" =>
                      /\ products'[product_id].store_quantity
                           = products[product_id].store_quantity - quantity
                      /\ products'[product_id].warehouse_quantity
                           = products[product_id].warehouse_quantity + quantity
                 /\ \A other \in DOMAIN products \ {product_id} :
                        products'[other] = products[other]
                 /\ sales' = sales )]_vars

\* C7 witness: a transfer back to the warehouse has just succeeded with two
\* products and a sale on record.
C7_Witness ==
    /\ last = Called("transfer_inventory", OK)
    /\ DOMAIN products = ProductIds
    /\ Len(sales) > 0
    /\ \E id \in DOMAIN products :
        products[id].warehouse_quantity = MaxQty - 1 /\ products[id].quantity = MaxQty - 1

(***************************************************************************)
(* Properties of the dues ledger (checked under SpecDues).                 *)
(***************************************************************************)
DuesNames == {Ali, PaddedAli}

\* The sum of g[i] over the indices i in I.
RECURSIVE SumOver(_, _)
SumOver(g, I) ==
    IF I = {} THEN 0
    ELSE LET i == CHOOSE k \in I : TRUE
         IN  g[i] + SumOver(g, I \ {i})

\* D of C8: the dues of the wholesale sale rows of customer X with due_amount > 0.
WholesaleDue(S, X) ==
    SumOver([i \in 1..Len(S) |-> S[i].due_amount],
            {i \in 1..Len(S) : /\ S[i].sale_type = "wholesale"
                               /\ S[i].customer_name = Some(X)
                               /\ S[i].due_amount > 0})

\* R of C8: the amounts of the dues_received rows of customer X.
Received(D, X) ==
    SumOver([i \in 1..Len(D) |-> D[i].amount_received],
            {i \in 1..Len(D) : D[i].customer_name = X})

\* Under SpecDues every sale is of one unit of P1, stocked with MaxQty units in
\* the store: the stock of P1 tells whether every recorded sale was deducted.
EverySaleDeducted ==
    /\ P1 \in DOMAIN products
    /\ products[P1].store_quantity = MaxQty - Len(sales)

\* The first conjunct of C8 alone: the value is max(0, D - R) in every state.
C8_ValueIsFlooredDifference ==
    \A X \in DuesNames :
        get_customer_dues_by_name(sales, dues_received, X)
          = Max(0, WholesaleDue(sales, X) - Received(dues_received, X))

\* C8: get_customer_dues_by_name(X) is max(0, D - R) for every name X in every
\* state, and a payment of the outstanding due d > 0 recorded with
\* add_dues_payment for the same name brings it to 0.
C8_PaymentOfDueClearsIt ==
    [][/\ \A X \in DuesNames :
            get_customer_dues_by_name(sales', dues_received', X)
              = Max(0, WholesaleDue(sales', X) - Received(dues_received', X))
       /\ \A X \in PaymentCustomers, amount \in PaymentAmounts :
            ( /\ EverySaleDeducted
              /\ amount > 0
              /\ amount = get_customer_dues_by_name(sales, dues_received, X)
              /\ add_dues_payment(X, amount)
              /\ last'.result = OK )
            => get_customer_dues_by_name(sales', dues_received', X) = 0]_vars

\* C9: a successful add_dues_payment(X, a) never increases
\* get_customer_dues_by_name(X), and the value is never negative.
C9_PaymentNeverIncreasesDue ==
    [][/\ \A X \in DuesNames :
            get_customer_dues_by_name(sales', dues_received', X) >= 0
       /\ last' = Called("add_dues_payment", OK) =>
            \A X \in PaymentCustomers, amount \in PaymentAmounts :
                add_dues_payment(X, amount)
                => get_customer_dues_by_name(sales', dues_received', X)
                     <= get_customer_dues_by_name(sales, dues_received, X)]_vars

\* C9 witness: a payment has just been recorded for a customer who owed, and
\* what was received exceeds what was due.
C9_Witness ==
    /\ last = Called("add_dues_payment", OK)
    /\ SumDue(sales, Ali) > 0
    /\ SumReceived(dues_received, Ali) > SumDue(sales, Ali)

\* C10: a retail add_sale, whatever its customer_name and due_amount, leaves
\* get_customer_dues_by_name(X) unchanged for every X and leaves the result of
\* get_customer_dues_with_payments unchanged.
C10_RetailSaleLeavesDues ==
    [][last'.op = "add_sale" =>
       \A party \in {p \in SaleParties : p[1] = "retail"},
          paid_amount \in PaidAmounts(sale_total(SellingPrice, 1)) :
            add_sale(party[1], P1, ProductName, SellingPrice, SaleCostPrice, 1,
                     paid_amount, party[2])
            => ( /\ \A X \in DuesNames :
                        get_customer_dues_by_name(sales', dues_received', X)
                          = get_customer_dues_by_name(sales, dues_received, X)
                 /\ get_customer_dues_with_payments(sales', dues_received')
                      = get_customer_dues_with_payments(sales, dues_received) )]_vars

\* C10 witness: the last row is an unpaid retail sale to a customer who also
\* has an unpaid wholesale sale, so the dues views are not empty.
C10_Witness ==
    /\ last.op = "add_sale"
    /\ Len(sales) = 2
    /\ sales[1].sale_type = "wholesale" /\ sales[1].due_amount > DuesNoiseThreshold
    /\ sales[2].sale_type = "retail" /\ sales[2].due_amount > 0
    /\ sales[1].customer_name = Some(Ali) /\ sales[2].customer_name = Some(Ali)
    /\ get_customer_dues_with_payments(sales, dues_received) # {<<>>}

\* C11: an overpayment is not credit: when the payments recorded for customer
\* X exceed X's dues (the last of them was larger than what X owed), a later
\* wholesale sale to X with due d > 0 raises get_customer_dues_by_name(X) to d.
C11_OverpaymentIsNotCredit ==
    [][last' = Called("add_sale", OK) =>
       \A X \in DuesNames, paid_amount \in PaidAmounts(sale_total(SellingPrice, 1)) :
            ( /\ Received(dues_received, X) > WholesaleDue(sales, X)
              /\ add_sale("wholesale", P1, ProductName, SellingPrice, SaleCostPrice, 1,
                          paid_amount, Some(X))
              /\ sales'[Len(sales')].due_amount > 0 )
            => get_customer_dues_by_name(sales', dues_received', X)
                 = sales'[Len(sales')].due_amount]_vars

\* C11 as amended: the excess of an overpayment is applied to later sales.
\* When the payments recorded for customer X exceed X's dues by e > 0, a
\* later wholesale sale to X with due d > 0 brings
\* get_customer_dues_by_name(X) to max(0, d - e).
C11_OverpaymentIsAppliedLater ==
    [][last' = Called("add_sale", OK) =>
       \A X \in DuesNames, paid_amount \in PaidAmounts(sale_total(SellingPrice, 1)) :
            ( /\ Received(dues_received, X) > WholesaleDue(sales, X)
              /\ add_sale("wholesale", P1, ProductName, SellingPrice, SaleCostPrice, 1,
                          paid_amount, Some(X))
              /\ sales'[Len(sales')].due_amount > 0 )
            => get_customer_dues_by_name(sales', dues_received', X)
                 = Max(0, sales'[Len(sales')].due_amount
                            - (Received(dues_received, X) - WholesaleDue(sales, X)))]_vars

\* C11 witness: the last row is an unpaid wholesale sale to a customer who
\* had paid more than was due, and the customer now owes less than the due of
\* that row, but not nothing.
C11_Witness ==
    /\ last = Called("add_sale", OK)
    /\ Len(sales) > 0
    /\ sales[Len(sales)].sale_type = "wholesale"
    /\ sales[Len(sales)].customer_name = Some(Ali)
    /\ sales[Len(sales)].due_amount > 0
    /\ Received(dues_received, Ali)
         > WholesaleDue(sales, Ali) - sales[Len(sales)].due_amount
    /\ get_customer_dues_by_name(sales, dues_received, Ali) > 0
    /\ get_customer_dues_by_name(sales, dues_received, Ali) < sales[Len(sales)].due_amount

(***************************************************************************)
(* Properties of init_database (checked under SpecMigration).              *)
(***************************************************************************)
\* C12: init_database run right after init_database is a no-op: it changes
\* neither the columns of the products table nor any product row.
C12_SecondRunIsNoOp ==
    [][(last.op = "init_database" /\ init_database)
       => (product_columns' = product_columns /\ products' = products)]_vars

\* C13: one init_database run on a database whose products table has neither
\* location column leaves every row of quantity q > 0 with
\* warehouse_quantity = floor(q / 2) and store_quantity = q - floor(q / 2), and
\* every row of quantity 0 with both at 0, so that the two add up to quantity.
C13_BackfillHalves ==
    [][(product_columns = PreMigrationColumns /\ init_database)
       => \A id \in DOMAIN products' :
            /\ DOMAIN products' = DOMAIN products
            /\ products'[id].quantity = products[id].quantity
            /\ products'[id].warehouse_quantity = products[id].quantity \div 2
            /\ products'[id].store_quantity
                 = products[id].quantity - (products[id].quantity \div 2)
            /\ products'[id].warehouse_quantity + products'[id].store_quantity
                 = products'[id].quantity]_vars

(***************************************************************************)
(* Properties of concurrent writers (checked under SpecConcurrent).        *)
(***************************************************************************)
\* The add_sale calls that have passed their stock check and not yet returned.
PastStockCheck(C) ==
    {p \in Procs : C[p].op = "add_sale" /\ C[p].pc \in {"update_product", "UPDATE"}}

\* C14: no partial write of add_sale is observable: in no state is a sale row
\* on record whose quantity the call that inserted it has not yet deducted
\* from the product.
C14_NoPartialSaleObservable ==
    \A i \in 1..Len(sales) :
        ~\E p \in Procs : calls[p].op = "add_sale" /\ calls[p].sale = i

\* C15: under every interleaving of the statements of concurrent add_sale,
\* transfer_inventory and update_product calls on one product, every product
\* row has warehouse_quantity + store_quantity = quantity and no negative
\* quantity.
C15_RowInvariantUnderInterleaving ==
    \A id \in DOMAIN products :
        /\ products[id].warehouse_quantity + products[id].store_quantity
             = products[id].quantity
        /\ products[id].warehouse_quantity >= 0
        /\ products[id].store_quantity >= 0
        /\ products[id].quantity >= 0

\* C15 witness: an add_sale is about to write quantities computed from a row
\* another writer has changed since, while the other writer is about to write
\* its own row.
C15_Witness ==
    \E p \in Procs, q \in Procs :
        /\ p # q
        /\ calls[p].op = "add_sale" /\ calls[p].pc = "UPDATE"
        /\ calls[p].prod # Some(products[calls[p].product_id])
        /\ calls[q].op \in {"transfer_inventory", "update_product"}
        /\ calls[q].pc = "UPDATE"
        /\ calls[q].row # calls[p].row

\* C16: the stock check of add_sale is check-then-act.  Every call past the
\* check has its sale row on record and passed on the store_quantity of the
\* row it read, and its UPDATE stores that value less its quantity whatever
\* the stored value is by then (the witness has two such calls that read the
\* same row and together sell more than it holds).
C16_CheckThenAct ==
    [][/\ \A p \in PastStockCheck(calls') :
            /\ calls'[p].prod[1].store_quantity >= calls'[p].quantity
            /\ calls'[p].sale \in 1..Len(sales')
            /\ sales'[calls'[p].sale].quantity = calls'[p].quantity
       /\ \A p \in PastStockCheck(calls) :
            (update_product_write(p) /\ last'.result = OK)
            => products'[calls[p].product_id].store_quantity
                 = calls[p].prod[1].store_quantity - calls[p].quantity]_vars

\* C16 witness: two add_sale calls have passed the check on the same row, both
\* sale rows are on record, and their quantities add up to more than the
\* store_quantity of that row.
C16_Witness ==
    \E p \in PastStockCheck(calls), q \in PastStockCheck(calls) :
        /\ p # q
        /\ calls[p].prod = calls[q].prod
        /\ calls[p].sale # calls[q].sale
        /\ sales[calls[p].sale].quantity + sales[calls[q].sale].quantity
             > calls[p].prod[1].store_quantity

(***************************************************************************)
(* Properties of the product functions (checked under SpecProducts).       *)
(***************************************************************************)
\* A text with nothing in it but blanks.
IsEmptyText(s) == \A i \in 1..Len(s) : s[i] = " "

\* A text without its surrounding blanks.
Trimmed(s) == rstrip(lstrip(s))

\* The location quantities of an add_product call <<id, name, company,
\* cost_price, quantity, warehouse_quantity, store_quantity>>, an omitted
\* warehouse_quantity being the quantity and an omitted store_quantity 0.
GivenWarehouse(a) == IF a[6] = None THEN a[5] ELSE a[6][1]

GivenStore(a) == IF a[7] = None THEN 0 ELSE a[7][1]

\* The add_product calls C18 says are rejected.
Rejectable(a) ==
    \/ IsEmptyText(a[1]) \/ IsEmptyText(a[2]) \/ IsEmptyText(a[3])
    \/ a[4] < 0 \/ a[5] < 0
    \/ GivenWarehouse(a) < 0 \/ GivenStore(a) < 0
    \/ GivenWarehouse(a) + GivenStore(a) # a[5]

\* C17: update_product on an existing product merges every omitted quantity
\* with the stored value; it writes the merged row if the merged values are
\* all >= 0 and warehouse_quantity + store_quantity = quantity (and the price
\* and the texts are valid); otherwise, and when the id is not found, it ends
\* with an error and leaves every product row unchanged.
C17_UpdateMergesWithStored ==
    [][last'.op = "update_product" =>
       \A a \in UpdateProductCalls :
          update_product(a[1], a[2], a[3], a[4], a[5], a[6], a[7])
          => IF a[1] \notin DOMAIN products
             THEN last'.result # OK /\ products' = products
             ELSE LET current == products[a[1]]
                      q == IF a[5] = None THEN current.quantity ELSE a[5][1]
                      wq == IF a[6] = None THEN current.warehouse_quantity ELSE a[6][1]
                      sq == IF a[7] = None THEN current.store_quantity ELSE a[7][1]
                  IN  IF /\ q >= 0 /\ wq >= 0 /\ sq >= 0 /\ wq + sq = q
                         /\ a[4] >= 0 /\ ~IsEmptyText(a[2]) /\ ~IsEmptyText(a[3])
                      THEN /\ last'.result = OK
                           /\ DOMAIN products' = DOMAIN products
                           /\ products'[a[1]].quantity = q
                           /\ products'[a[1]].warehouse_quantity = wq
                           /\ products'[a[1]].store_quantity = sq
                           /\ products'[a[1]].cost_price = a[4]
                           /\ products'[a[1]].name = a[2]
                           /\ products'[a[1]].company = a[3]
                           /\ \A other \in DOMAIN products \ {a[1]} :
                                  products'[other] = products[other]
                      ELSE last'.result # OK /\ products' = products]_vars

\* C17 witness: an update that gave the price alone has just succeeded on a
\* product with stock in both locations, next to another product.
C17_Witness ==
    /\ last = Called("update_product", OK)
    /\ DOMAIN products = ProductIds
    /\ \E id \in DOMAIN products :
        /\ products[id].cost_price = CostPrice + 1
        /\ products[id].warehouse_quantity > 0
        /\ products[id].store_quantity > 0

\* C18: an acceptable add_product of a new id with both location quantities
\* omitted stores warehouse_quantity = quantity and store_quantity = 0; an
\* add_product with an empty id, name or company, a negative cost_price,
\* quantity or location quantity, or warehouse_quantity + store_quantity #
\* quantity is rejected and inserts no row.
C18_AddProductDefaultsAndRejects ==
    [][last'.op = "add_product" =>
       \A a \in AddProductCalls :
          add_product(a[1], a[2], a[3], a[4], a[5], a[6], a[7])
          => /\ ( /\ a[6] = None /\ a[7] = None
                  /\ ~Rejectable(a)
                  /\ Trimmed(a[1]) \notin DOMAIN products )
                => ( /\ last'.result = OK
                     /\ DOMAIN products' = DOMAIN products \cup {Trimmed(a[1])}
                     /\ products'[Trimmed(a[1])].quantity = a[5]
                     /\ products'[Trimmed(a[1])].warehouse_quantity = a[5]
                     /\ products'[Trimmed(a[1])].store_quantity = 0
                     /\ \A other \in DOMAIN products : products'[other] = products[other] )
             /\ Rejectable(a) => (last'.result # OK /\ products' = products)]_vars

\* C18 witness: a split that does not add up has just been rejected, and a
\* product added without location quantities is stored in the warehouse.
C18_Witness ==
    /\ last = Called("add_product", ErrSplit)
    /\ \E id \in DOMAIN products :
        /\ products[id].warehouse_quantity = MaxQty
        /\ products[id].quantity = MaxQty
        /\ products[id].store_quantity = 0

\* C19: add_product with an id that is, without its surrounding whitespace,
\* the id of an existing product fails (with the storage error when the other
\* arguments are acceptable) and leaves the existing row and the number of
\* product rows unchanged.
C19_DuplicateIdRejected ==
    [][last'.op = "add_product" =>
       \A a \in AddProductCalls :
          ( /\ Trimmed(a[1]) \in DOMAIN products
            /\ add_product(a[1], a[2], a[3], a[4], a[5], a[6], a[7]) )
          => ( /\ last'.result # OK
               /\ ~Rejectable(a) => last'.result = IntegrityError
               /\ products'[Trimmed(a[1])] = products[Trimmed(a[1])]
               /\ Cardinality(DOMAIN products') = Cardinality(DOMAIN products)
               /\ products' = products )]_vars

\* C19 witness: the storage error has just been raised with both products on
\* record, one of them with stock in the store.
C19_Witness ==
    /\ last = Called("add_product", IntegrityError)
    /\ DOMAIN products = ProductIds
    /\ products[P1].store_quantity > 0

\* C20: transfer_inventory is rejected and leaves every product row unchanged
\* when the quantity is <= 0, a location is neither 'warehouse' nor 'store',
\* source and destination are the same, the product id is not found, or the
\* source location holds less than the quantity.
C20_TransferRejections ==
    [][last'.op = "transfer_inventory" =>
       \A a \in TransferCalls :
          ( /\ \/ a[4] <= 0
               \/ a[2] \notin {"warehouse", "store"}
               \/ a[3] \notin {"warehouse", "store"}
               \/ a[2] = a[3]
               \/ a[1] \notin DOMAIN products
               \/ a[2] = "warehouse" /\ products[a[1]].warehouse_quantity < a[4]
               \/ a[2] = "store" /\ products[a[1]].store_quantity < a[4]
            /\ transfer_inventory(a[1], a[2], a[3], a[4]) )
          => (last'.result # OK /\ products' = products)]_vars

\* C20 witness: a transfer out of the store has just been rejected for lack of
\* stock there while the product has stock in the warehouse.
C20_Witness ==
    /\ last = Called("transfer_inventory", ErrNoStoreStock)
    /\ \E id \in DOMAIN products :
        products[id].warehouse_quantity > 0 /\ products[id].store_quantity > 0

(***************************************************************************)
(* Properties of the whole ledger (checked under SpecLedger).              *)
(***************************************************************************)
\* The sale rows of a product.
SalesOf(S, product_id) == {i \in 1..Len(S) : S[i].product_id = product_id}

\* C21: delete_product on an id that has no product row raises the not-found
\* error and changes nothing; on an existing product, with or without Sale
\* rows, it succeeds, removes that product row and no other, and leaves
\* every Sale row as it was, its product_name, selling_price and cost_price
\* snapshot included.
C21_DeleteProduct ==
    [][\A product_id \in ProductIds :
          (last' = Called("delete_product", last'.result) /\ delete_product(product_id))
          => /\ sales' = sales
             /\ \A id \in DOMAIN products \ {product_id} :
                    id \in DOMAIN products' /\ products'[id] = products[id]
             /\ IF product_id \in DOMAIN products
                THEN /\ last'.result = OK
                     /\ DOMAIN products' = DOMAIN products \ {product_id}
                ELSE /\ last'.result = ErrProductIdNotFound
                     /\ products' = products
                     /\ UNCHANGED <<dues_received, customers, expenses, product_columns>>]_vars

\* A product that has a Sale row was deleted while another product is stored;
\* the Sale row is still there.
C21_Witness ==
    /\ last = Called("delete_product", OK)
    /\ P1 \notin DOMAIN products
    /\ P2 \in DOMAIN products
    /\ SalesOf(sales, P1) # {}

\* C22: Sale rows are immutable and the sales table is append-only: no step
\* of any ledger operation (a product, customer, sale, dues or expense
\* operation, or init_database) removes a Sale row or changes a field of
\* one.
C22_SalesAppendOnly ==
    [][\A i \in 1..Len(sales) :
          /\ i <= Len(sales')
          /\ \A field \in DOMAIN sales[i] :
                field \in DOMAIN sales'[i] /\ sales'[i][field] = sales[i][field]]_vars

\* The Sale row found at the start and a later one with a due amount are
\* both still stored after the sold product, the customer and an expense
\* were deleted, a payment was recorded and the process was started again.
C22_Witness ==
    /\ last.op = "init_database"
    /\ Len(sales) = MaxSales
    /\ \A field \in DOMAIN FoundSale : sales[1][field] = FoundSale[field]
    /\ sales[MaxSales].due_amount > 0
    /\ P1 \notin DOMAIN products
    /\ customers = <<None>>
    /\ expenses = <<None>>
    /\ dues_received # <<>>

(***************************************************************************)
(* Further properties of the dues ledger (checked under SpecDues).         *)
(***************************************************************************)
\* C23: every Sale row with sale_type 'wholesale' has a customer_name and
\* every Sale row with sale_type 'retail' has none (NULL), for every row
\* that add_sale can create; stated for the row of every add_sale call that
\* succeeds.
C23_CustomerMatchesSaleType ==
    [][(last' = Called("add_sale", OK) /\ Len(sales') = Len(sales) + 1)
       => LET row == sales'[Len(sales')]
          IN  /\ row.sale_type = "wholesale" => row.customer_name # None
              /\ row.sale_type = "retail" => row.customer_name = None]_vars

\* The payments tried: every name and amount of the dues ledger.
PaymentCalls == (PaymentCustomers \X PaymentAmounts) \cup RefusedPayments

\* C24: add_dues_payment rejects an amount <= 0 and an empty or
\* whitespace-only customer_name, and then inserts nothing; every other call
\* inserts exactly one dues_received row whatever the customer's outstanding
\* due is; no call changes a Sale row or a product row.
C24_PaymentRejections ==
    [][\A call \in PaymentCalls :
          (last' = Called("add_dues_payment", last'.result)
              /\ add_dues_payment(call[1], call[2]))
          => /\ sales' = sales
             /\ products' = products
             /\ IF call[2] <= 0 \/ IsEmptyText(call[1])
                THEN last'.result # OK /\ dues_received' = dues_received
                ELSE /\ last'.result = OK
                     /\ Len(dues_received') = Len(dues_received) + 1
                     /\ KeepsRows(dues_received, dues_received')]_vars

\* A payment was recorded for a customer who owes nothing: the payments
\* recorded for Ali exceed all that was ever due from Ali.
C24_Witness ==
    /\ last = Called("add_dues_payment", OK)
    /\ dues_received # <<>>
    /\ Received(dues_received, Ali) > WholesaleDue(sales, Ali)

(***************************************************************************)
(* Properties of the dues view (checked under SpecDuesView).               *)
(***************************************************************************)
\* The customer names of the wholesale Sale rows with a due amount and of the
\* dues_received rows.
NamesWithDuesOrPayments ==
    {sales[i].customer_name[1] :
        i \in {j \in 1..Len(sales) : /\ sales[j].sale_type = "wholesale"
                                     /\ sales[j].due_amount > 0
                                     /\ sales[j].customer_name # None}}
    \cup {dues_received[i].customer_name : i \in 1..Len(dues_received)}

\* Total due minus total received of a customer name.
RemainingDue(X) == WholesaleDue(sales, X) - Received(dues_received, X)

\* C25: get_customer_dues_with_payments returns exactly one entry for each
\* customer name that appears in a wholesale Sale row with due_amount > 0 or
\* in a dues_received row and whose remaining due (total due - total
\* received) is greater than 0.01, no entry for any other name, and the
\* entries in descending order of remaining due.
C25_DuesView ==
    last.op = "get_customer_dues_with_payments"
    => LET l == last.result
       IN  /\ \A X \in NamesWithDuesOrPayments \cup {Ali, Bob} :
                 Cardinality({i \in 1..Len(l) : l[i].customer_name = X})
                    = IF X \in NamesWithDuesOrPayments /\ RemainingDue(X) > 1
                      THEN 1 ELSE 0
           /\ \A i \in 1..Len(l) :
                 /\ l[i].customer_name \in NamesWithDuesOrPayments
                 /\ l[i].remaining_due = RemainingDue(l[i].customer_name)
           /\ \A i, j \in 1..Len(l) : i < j => l[i].remaining_due >= l[j].remaining_due

\* The view was returned with two entries of different remaining dues while a
\* payment was recorded for one of the two customers.
C25_Witness ==
    /\ last.op = "get_customer_dues_with_payments"
    /\ Len(last.result) = 2
    /\ last.result[1].remaining_due > last.result[2].remaining_due
    /\ \E i \in 1..2 : last.result[i].total_received > 0

(***************************************************************************)
(* Properties of the purchase page and the sales page (checked under       *)
(* SpecPages).                                                             *)
(***************************************************************************)
\* C26: saving a purchase of n > 0 units of P on the purchase page, after
\* any sequence of preceding sales, transfers and edits of P, increases the
\* stored quantity and warehouse_quantity of P by exactly n relative to
\* their stored values at the moment of saving and leaves store_quantity
\* unchanged.
C26_PurchaseAddsToStored ==
    [][(last' = Called("_save_purchase", OK) /\ save_purchase(P1, PurchaseCost, 1))
       => /\ products'[P1].quantity = products[P1].quantity + 1
          /\ products'[P1].warehouse_quantity = products[P1].warehouse_quantity + 1
          /\ products'[P1].store_quantity = products[P1].store_quantity]_vars

\* C27: the cost_price stored in a Sale row created through the sales page
\* equals the stored cost_price of the product at the moment the Sale row is
\* written, whatever purchases or edits happened between adding the line to
\* the cart and saving the sale.
C27_SaleCostIsStoredCost ==
    [][last'.op = "_save_sale"
       => \A i \in (Len(sales) + 1)..Len(sales') :
              sales'[i].product_id \in DOMAIN products
              => sales'[i].cost_price = products[sales'[i].product_id].cost_price]_vars

\* The units of P1 in the Sale rows.
SoldUnits(S) == SumOver([i \in 1..Len(S) |-> S[i].quantity], SalesOf(S, P1))

\* C28: while P1, created once, is changed only by purchases, transfers and
\* add_sale calls of the single writer, its stored quantity is its initial
\* quantity plus the units purchased minus the units of all Sale rows of P1
\* (every Sale row stands for exactly one applied deduction): a step changes
\* stored quantity + sold units by the units it purchased and by nothing
\* else.
C28_StockConservation ==
    [][(P1 \in DOMAIN products /\ P1 \in DOMAIN products')
       => products'[P1].quantity + SoldUnits(sales')
             = products[P1].quantity + SoldUnits(sales)
               + (IF last' = Called("_save_purchase", OK) /\ save_purchase(P1, PurchaseCost, 1)
                  THEN 1 ELSE 0)]_vars

\* The units of P1 in the cart.
RECURSIVE CartUnits(_)
CartUnits(lines) ==
    IF lines = <<>> THEN 0 ELSE Head(lines).quantity + CartUnits(Tail(lines))

\* C29: _save_sale with 0 <= paid <= cart total and every line within the
\* store_quantity of its product succeeds however the total is split over
\* the lines: one Sale row per cart line, and the due amounts of the rows
\* sum to cart total - paid.  Stated for carts whose lines fit in the store
\* even taken together.
C29_SaveSaleSucceeds ==
    [][\A paid \in {0, cart_total(cart)} :
          (/\ last'.op = "_save_sale"
           /\ save_sale(paid, "retail", None)
           /\ cart # <<>>
           /\ P1 \in DOMAIN products
           /\ CartUnits(cart) <= products[P1].store_quantity)
          => /\ last'.result = OK
             /\ Len(sales') = Len(sales) + Len(cart)
             /\ SumOver([i \in 1..Len(sales') |-> sales'[i].due_amount],
                        (Len(sales) + 1)..Len(sales'))
                   = cart_total(cart) - paid]_vars

\* C30: saving a cart is all-or-nothing: when add_sale fails for a line (two
\* lines of one product that together exceed its store_quantity, say), no
\* Sale row and no stock deduction of any line of the cart is persisted.
\* Stated without the row of the failing line itself: no stock is deducted
\* and no row of an earlier line is stored.
C30_SaveSaleAllOrNothing ==
    [][(last'.op = "_save_sale" /\ last'.result # OK)
       => products' = products /\ Len(sales') <= Len(sales) + 1]_vars

====
